---- MODULE Spec2Model ----
(***************************************************************************)
(* Domain Q&A agent (qagent-mcp): the HTTP front door (main.py), the       *)
(* per-session conversational agent (qa_agent.py) and the tool server      *)
(* (mcp_server.py).                                                        *)
(*                                                                         *)
(* The front door runs on one asyncio event loop: the code between two     *)
(* awaits of a handler is one atomic step, and handlers of different       *)
(* requests interleave at the awaits.  A chat request has two suspension   *)
(* points, the tool-list fetch (qa_agent.py:174) and the reasoning loop    *)
(* (qa_agent.py:231).  /reset and /health never suspend.                   *)
(*                                                                         *)
(* Texts are sequences of string tokens; concatenation of texts is \o.     *)
(***************************************************************************)
EXTENDS Integers, Sequences, FiniteSets, TLC

\* ------------------------------------------------------------ bounds
MaxRequests == 2         \* /chat and /reset requests in one run of the front door
MaxSessionRequests == 4  \* /chat and /reset requests in one run of a single session
MaxCalls == 2            \* /chat requests in flight at the same time
MaxProviderResults == 2  \* results the search provider returns
MaxLimit == 2            \* configured content and scrape limits, in characters
MaxEnvLen == 2           \* characters of an environment value at startup
MaxEnvSet == 2           \* numeric settings present in the environment at startup
MaxShutdownRequests == 2 \* /chat and /reset requests before the front door shuts down

\* ------------------------------------------------------------ values
None == "<None>"

\* str(uuid.uuid4()) values, and the tokens clients make up themselves
UUIDs == {"uuid-1", "uuid-2"}
ClientTokens == {"client-1"}
Messages == {<<"q1">>, <<"q2">>}

\* main.py:162, 192: `not session_id` holds for a missing and for an empty cookie
Falsy(session_id) == session_id \in {None, ""}

\* what the reasoning loop can hand back (qa_agent.py:231): a dict with or
\* without the "output" key
LoopResponses == {[output |-> <<"a1">>], [intermediate_steps |-> <<>>]}

\* dict.get(key, default)
Get(d, key, default) == IF key \in DOMAIN d THEN d[key] ELSE default

FallbackAnswer == <<"I couldn't process your request.">>

HumanMessage(content) == [role |-> "user", content |-> content]
AIMessage(content) == [role |-> "assistant", content |-> content]

\* f"Error: {str(e)}"
ErrorText(e) == <<"Error: ">> \o <<e>>

ResetBody == <<"Conversation memory has been reset">>

\* ------------------------------------------------------------ texts
\* A text is a sequence of tokens: one token per character where the code
\* counts or slices characters, one token per literal piece otherwise.
Digits == <<"0", "1", "2", "3", "4", "5", "6", "7", "8", "9">>
IsDigit(ch) == \E i \in 1..Len(Digits) : Digits[i] = ch
DigitValue(ch) == (CHOOSE i \in 1..Len(Digits) : Digits[i] = ch) - 1

RECURSIVE DecimalValue(_)
DecimalValue(text) ==
    IF text = <<>> THEN 0
    ELSE 10 * DecimalValue(SubSeq(text, 1, Len(text) - 1)) + DigitValue(text[Len(text)])

\* str(n) of an integer n >= 0
RECURSIVE str(_)
str(n) == IF n < 10 THEN <<Digits[n + 1]>> ELSE str(n \div 10) \o <<Digits[(n % 10) + 1]>>

\* int(text): the value, or ValueError (ok = FALSE).  Over the characters the
\* model uses: an optional minus sign, then one or more digits.
int(text) ==
    LET body == IF text # <<>> /\ Head(text) = "-" THEN Tail(text) ELSE text IN
    IF body # <<>> /\ \A i \in 1..Len(body) : IsDigit(body[i])
    THEN [ok |-> TRUE,
          value |-> IF body = text THEN DecimalValue(body) ELSE 0 - DecimalValue(body)]
    ELSE [ok |-> FALSE, value |-> 0]

\* float(text): the value as num / 10^scale, or ValueError.  Over the
\* characters the model uses: digits with at most one point, one digit at least.
float(text) ==
    LET points == {i \in 1..Len(text) : text[i] = "."}
        digits == SelectSeq(text, IsDigit)
    IN  IF /\ \A i \in 1..Len(text) : IsDigit(text[i]) \/ text[i] = "."
           /\ Cardinality(points) <= 1
           /\ digits # <<>>
        THEN [ok |-> TRUE,
              value |-> [num |-> DecimalValue(digits),
                         scale |-> IF points = {} THEN 0
                                   ELSE Len(text) - (CHOOSE i \in points : TRUE)]]
        ELSE [ok |-> FALSE, value |-> [num |-> 0, scale |-> 0]]

\* str.lower(), over the letters the model uses
LowerOf == [T |-> "t", R |-> "r", U |-> "u", E |-> "e"]
lower(text) ==
    [i \in 1..Len(text) |-> IF text[i] \in DOMAIN LowerOf THEN LowerOf[text[i]] ELSE text[i]]

\* Python's seq[:n]
PrefixSlice(seq, n) ==
    IF n >= 0
    THEN SubSeq(seq, 1, IF n < Len(seq) THEN n ELSE Len(seq))
    ELSE SubSeq(seq, 1, IF Len(seq) + n > 0 THEN Len(seq) + n ELSE 0)

\* "\n".join(parts)
RECURSIVE join(_)
join(parts) ==
    IF parts = <<>> THEN <<>>
    ELSE IF Len(parts) = 1 THEN parts[1]
    ELSE parts[1] \o <<"\n">> \o join(Tail(parts))

\* An optional value: <<>> is Python's None, <<v>> is the value v.
Nothing == <<>>
Some(v) == <<v>>
\* the truth value Python gives an optional text
TruthyText(opt) == opt # Nothing /\ opt[1] # <<>>
\* the truth value Python gives an optional integer
TruthyInt(opt) == opt # Nothing /\ opt[1] # 0

\* os.getenv(key, default) and os.getenv(key)
getenv(env, key, default) == IF key \in DOMAIN env THEN env[key] ELSE default
getenv_optional(env, key) == IF key \in DOMAIN env THEN Some(env[key]) ELSE Nothing

\* ------------------------------------------------------------ main.py: configuration
convert(converter, text) == IF converter = "int" THEN int(text) ELSE float(text)

\* get_env_with_fallback: the setting, and whether the warning was logged
get_env_with_fallback(env, key, default, converter) ==
    IF key \notin DOMAIN env
    THEN [value |-> default, warned |-> FALSE]
    ELSE LET r == convert(converter, env[key]) IN
         IF r.ok THEN [value |-> r.value, warned |-> FALSE]
         ELSE [value |-> default, warned |-> TRUE]

PlaceholderKey == <<"your_google_api_key_here">>

\* validate_client_config: ok, or ValueError for a missing or placeholder key
validate_client_config(env) ==
    LET google_api_key == getenv_optional(env, "GOOGLE_API_KEY") IN
    [ok |-> TruthyText(google_api_key) /\ google_api_key # Some(PlaceholderKey),
     google_api_key |-> google_api_key,
     mcp_server_url |-> getenv(env, "MCP_SERVER_URL", <<"http://127.0.0.1:8001/mcp">>)]

NotStarted == [state |-> "not started", settings |-> <<>>, warned |-> {}]
StartupFailed == [state |-> "failed", settings |-> <<>>, warned |-> {}]

DefaultTemperature == [num |-> 1, scale |-> 1]
DefaultMaxTokens == 3000
DefaultLlmTimeout == 60
DefaultRequestTimeout == 30

\* build_config, create_config and the startup half of lifespan: the
\* configuration kept in app.state, or the startup failure
create_config(env) ==
    LET v == validate_client_config(env)
        temperature == get_env_with_fallback(env, "LLM_TEMPERATURE", DefaultTemperature, "float")
        max_tokens  == get_env_with_fallback(env, "LLM_MAX_TOKENS", DefaultMaxTokens, "int")
        llm_timeout == get_env_with_fallback(env, "LLM_TIMEOUT", DefaultLlmTimeout, "int")
        req_timeout == get_env_with_fallback(env, "REQUEST_TIMEOUT", DefaultRequestTimeout, "int")
    IN  IF ~v.ok THEN StartupFailed
        ELSE [state |-> "ready",
              settings |-> [google_api_key |-> v.google_api_key,
                            llm_temperature |-> temperature.value,
                            llm_max_tokens |-> max_tokens.value,
                            llm_timeout |-> llm_timeout.value,
                            request_timeout |-> req_timeout.value,
                            mcp_server_url |-> v.mcp_server_url],
              warned |-> {k \in {"LLM_TEMPERATURE"} : temperature.warned}
                         \cup {k \in {"LLM_MAX_TOKENS"} : max_tokens.warned}
                         \cup {k \in {"LLM_TIMEOUT"} : llm_timeout.warned}
                         \cup {k \in {"REQUEST_TIMEOUT"} : req_timeout.warned}]

\* ------------------------------------------------------------ mcp_server.py: configuration
\* ServerClients.__init__ and _initialize_clients, run on module load: the
\* server's clients and configuration, or the startup failure
ServerClients(env) ==
    LET max_results       == int(getenv(env, "MAX_RESULTS", <<"1", "0">>))
        max_content_size  == int(getenv(env, "MAX_CONTENT_SIZE", <<"1", "0", "0", "0", "0">>))
        max_scrape_length == int(getenv(env, "MAX_SCRAPE_LENGTH", <<"2", "0", "0", "0", "0">>))
        google_api_key    == getenv_optional(env, "GOOGLE_API_KEY")
        tavily_api_key    == getenv_optional(env, "TAVILY_API_KEY")
        enable == lower(getenv(env, "ENABLE_SEARCH_SUMMARIZATION",
                               <<"f", "a", "l", "s", "e">>)) = <<"t", "r", "u", "e">>
    IN  IF ~(max_results.ok /\ max_content_size.ok /\ max_scrape_length.ok)
        THEN StartupFailed      \* int() raises ValueError in __init__
        ELSE IF ~TruthyText(tavily_api_key)
        THEN StartupFailed      \* _initialize_clients raises ValueError
        ELSE [state |-> "ready",
              settings |-> [google_api_key |-> google_api_key,
                            tavily_api_key |-> tavily_api_key,
                            max_results |-> max_results.value,
                            search_depth |-> getenv(env, "SEARCH_DEPTH", <<"basic">>),
                            max_content_size |-> max_content_size.value,
                            max_scrape_length |-> max_scrape_length.value,
                            enable_search_summarization |-> enable,
                            summarizer_llm |-> IF enable /\ TruthyText(google_api_key)
                                               THEN Some("ChatGoogleGenerativeAI")
                                               ELSE Nothing],
              warned |-> {}]

\* ------------------------------------------------------------ mcp_server.py: tools
NoResultsText ==
    <<"No results found. Try a different search query or check if domains are accessible.">>
DefaultTitle == <<"No title">>
DefaultUrl == <<"No URL">>
DefaultContent ==
    <<"N", "o", " ", "c", "o", "n", "t", "e", "n", "t", " ",
      "a", "v", "a", "i", "l", "a", "b", "l", "e">>
Ellipsis == <<"...">>
TruncatedMarker == <<"\n\n... (content truncated)">>

\* format_search_results: the body of the loop, for result number i
format_search_result_keep_limit_plus_one(i, result, max_content_size) ==
    LET content == Get(result, "content", DefaultContent) IN
    <<"\nResult ">> \o str(i) \o <<":\nTitle: ">> \o Get(result, "title", DefaultTitle)
        \o <<"\nURL: ">> \o Get(result, "url", DefaultUrl)
        \o <<"\nContent: ">>
        \o (IF Len(content) > max_content_size
            THEN PrefixSlice(content, max_content_size + 1) \o Ellipsis
            ELSE content)
        \o <<"\n---\n">>
format_search_result(i, result, max_content_size) ==
    LET content == Get(result, "content", DefaultContent) IN
    <<"\nResult ">> \o str(i) \o <<":\nTitle: ">> \o Get(result, "title", DefaultTitle)
        \o <<"\nURL: ">> \o Get(result, "url", DefaultUrl)
        \o <<"\nContent: ">>
        \o (IF Len(content) > max_content_size
            THEN PrefixSlice(content, max_content_size) \o Ellipsis
            ELSE content)
        \o <<"\n---\n">>

\* format_search_results: enumerate(results, 1)
RECURSIVE format_search_results_from(_, _, _)
format_search_results_from(results, i, max_content_size) ==
    IF results = <<>> THEN <<>>
    ELSE <<format_search_result(i, Head(results), max_content_size)>>
            \o format_search_results_from(Tail(results), i + 1, max_content_size)

format_search_results(results, max_content_size) ==
    format_search_results_from(results, 1, max_content_size)

Returned(value) == [kind |-> "return", value |-> value]
Raised(error) == [kind |-> "raise", error |-> error]

\* search_documentation, the body of the outer try.  provider is what the
\* search call does (returns a dict or raises), summarizer what the summarizer
\* call does if it is made (returns a text or raises).
search_documentation_body(clients, query, sites, max_results, depth, provider, summarizer) ==
    LET final_max_results ==
            IF TruthyInt(max_results) THEN max_results[1] ELSE clients.max_results
        results == Get(provider.value, "results", <<>>)
        formatted_results ==
            format_search_results(PrefixSlice(results, final_max_results),
                                  clients.max_content_size)
        final_result == join(formatted_results)
    IN  IF provider.kind = "raise" THEN Raised(provider.error)
        ELSE IF results = <<>> THEN Returned(NoResultsText)
        ELSE IF /\ clients.enable_search_summarization
                /\ clients.summarizer_llm # Nothing
                /\ summarizer.kind = "return"
                /\ Len(final_result) # 0      \* else ZeroDivisionError, caught at 202
             THEN Returned(summarizer.value)
             ELSE Returned(final_result)

\* search_documentation: the outer try/except turns an exception into a text.
\* (The code's message starts with a cross-mark emoji, left out of the literal.)
search_documentation(clients, query, sites, max_results, depth, provider, summarizer) ==
    LET r == search_documentation_body(clients, query, sites, max_results, depth,
                                       provider, summarizer)
    IN  IF r.kind = "raise"
        THEN Returned(<<"Search error: ">> \o r.error)
        ELSE r

\* scrape_website, the body of the try.  loader is what loader.load does,
\* transformer what transform_documents does if it is called.
scrape_website_body(clients, url, tags_to_extract, loader, transformer) ==
    IF loader.kind = "raise" THEN Raised(loader.error)
    ELSE IF loader.value = <<>> THEN Returned(<<"Failed to load content from ">> \o url)
    ELSE IF transformer.kind = "raise" THEN Raised(transformer.error)
    ELSE IF transformer.value = <<>>
    THEN Returned(<<"No content extracted from ">> \o url)
    ELSE LET page_content == transformer.value[1].page_content
             content == IF Len(page_content) > clients.max_scrape_length
                        THEN PrefixSlice(page_content, clients.max_scrape_length)
                                \o TruncatedMarker
                        ELSE page_content
         IN  Returned(<<"\n**Website Scraped:** ">> \o url
                      \o <<"\n**Content Extracted:**\n\n">> \o content
                      \o <<"\n\n**Note:** Complete website content for comprehensive analysis.\n">>)

\* scrape_website: the try/except turns an exception into a text
scrape_website_reraise(clients, url, tags_to_extract, loader, transformer) ==
    scrape_website_body(clients, url, tags_to_extract, loader, transformer)
scrape_website(clients, url, tags_to_extract, loader, transformer) ==
    LET r == scrape_website_body(clients, url, tags_to_extract, loader, transformer) IN
    IF r.kind = "raise"
    THEN Returned(<<"Web scraping error for ">> \o url \o <<": ">> \o r.error)
    ELSE r

\* ------------------------------------------------------------ state
VARIABLES
    environ,        \* os.environ of the process
    config,         \* main.py: app.state.config, once the front door has started
    server_clients, \* mcp_server.py: server_clients, once the tool server has started
    tool,           \* mcp_server.py: the tool call to answer and, once answered, its result
    user_sessions,  \* app.state.user_sessions: session token -> agent (its index in agents)
    agents,         \* every DomainQAAgent constructed so far
    calls,          \* the /chat requests in flight, by slot
    issued,         \* the tokens uuid4 has returned so far
    mcp_up,         \* whether the tool server answers
    event,          \* what the last step did and, if it ended a request, the response
    handled,        \* history variable: tokens a /chat or /reset has been handled for
    reset_pending,  \* history variable: agents reset with no chat call started since
    reset_clean,    \* history variable: agents reset with no history append since
    served,         \* history variable: /chat and /reset requests taken up so far
    shutdown        \* main.py: lifespan after its yield, the position of its cleanup loop

door_vars == <<user_sessions, agents, calls, issued, mcp_up, event, handled,
               reset_pending, reset_clean, served>>
proc_vars == <<environ, config, server_clients, tool, shutdown>>
vars == <<door_vars, proc_vars>>

\* ------------------------------------------------------------ qa_agent.py
\* DomainQAAgent.__init__
NewAgent ==
    [chat_history |-> <<>>, mcp_client |-> None, tools |-> <<>>,
     agent_executor |-> None]

\* Python's seq[-n:]
LastSlice(seq, n) ==
    SubSeq(seq, (IF Len(seq) > n THEN Len(seq) - n ELSE 0) + 1, Len(seq))

HistoryWindow == 5

\* achat: the chat_history entry of agent_input
chat_context_oldest(chat_history) ==
    IF chat_history # <<>>
    THEN SubSeq(chat_history, 1,
                IF Len(chat_history) > HistoryWindow THEN HistoryWindow
                ELSE Len(chat_history))
    ELSE <<>>
chat_context(chat_history) ==
    IF chat_history # <<>> THEN LastSlice(chat_history, HistoryWindow) ELSE <<>>

\* reset_memory: self.chat_history.clear()
reset_memory_noop(chat_history) == chat_history
reset_memory(chat_history) == <<>>

\* achat: self.chat_history.extend([HumanMessage, AIMessage])
extend_history_onto_empty(chat_history, user_input, answer) ==
    <<HumanMessage(user_input), AIMessage(answer)>>
extend_history_answer_only(chat_history, user_input, answer) ==
    chat_history \o <<AIMessage(answer)>>
extend_history(chat_history, user_input, answer) ==
    chat_history \o <<HumanMessage(user_input), AIMessage(answer)>>

\* _initialize_mcp_client, up to the await of get_tools
client_created(agent) == [agent EXCEPT !.mcp_client = "MultiServerMCPClient"]

\* _initialize_mcp_client, after get_tools has returned
tools_loaded(agent) ==
    [agent EXCEPT !.tools = <<"search_documentation", "scrape_website">>,
                  !.agent_executor = "AgentExecutor"]

\* ------------------------------------------------------------ main.py
\* uuid.uuid4(): the values it can return, given the ones it has returned
uuid4_any(returned) == UUIDs
uuid4(returned) == UUIDs \ returned

get_or_create_agent_always_create(sessions, heap, session_id) ==
    [sessions |-> (session_id :> (Len(heap) + 1)) @@ sessions,
     agents   |-> Append(heap, NewAgent),
     agent    |-> Len(heap) + 1]
get_or_create_agent_replace(sessions, heap, session_id) ==
    [sessions |-> (session_id :> (Len(heap) + 1)),
     agents   |-> Append(heap, NewAgent),
     agent    |-> Len(heap) + 1]
get_or_create_agent(sessions, heap, session_id) ==
    IF session_id \notin DOMAIN sessions
    THEN [sessions |-> sessions @@ (session_id :> (Len(heap) + 1)),
          agents   |-> Append(heap, NewAgent),
          agent    |-> Len(heap) + 1]
    ELSE [sessions |-> sessions, agents |-> heap, agent |-> sessions[session_id]]

\* health_check: the active_sessions field
active_sessions == Cardinality(DOMAIN user_sessions)

IdleCall ==
    [pc |-> "idle", cookie |-> None, session_id |-> None, set_cookie |-> None,
     agent |-> 0, user_input |-> <<>>, after_reset |-> FALSE]

NoEvent ==
    [op |-> "none", call |-> 0, started |-> FALSE, cookie |-> None,
     reset_applied |-> FALSE, after_reset |-> FALSE, agent |-> 0, phase |-> "none",
     chat_history |-> <<>>, exception |-> "", status_code |-> 0, detail |-> "",
     response |-> <<>>,
     status |-> "", session_id |-> None, set_cookie |-> None,
     active_sessions |-> 0]

\* the ChatResponse of a request, with the cookie the handler set on the response
ChatResponse_echo_cookie(c, call, response_text) ==
    [NoEvent EXCEPT !.op = "chat", !.call = c, !.cookie = call.cookie,
                    !.agent = call.agent, !.after_reset = call.after_reset,
                    !.phase = "response", !.status_code = 200,
                    !.response = response_text, !.status = "success",
                    !.session_id = call.cookie, !.set_cookie = call.set_cookie]
ChatResponse(c, call, response_text) ==
    [NoEvent EXCEPT !.op = "chat", !.call = c, !.cookie = call.cookie,
                    !.agent = call.agent, !.after_reset = call.after_reset,
                    !.phase = "response", !.status_code = 200,
                    !.response = response_text, !.status = "success",
                    !.session_id = call.session_id, !.set_cookie = call.set_cookie]

\* the cookies a client can send: none, an empty one, a token it was given,
\* or one it made up
Cookies == {None, ""} \cup issued \cup ClientTokens

\* the cookies of one browser: none until /chat has set one, then that one
SessionCookies == IF issued = {} THEN {None} ELSE issued

\* a tool call is a request (name, args), what the outside world does during
\* the call (world) and, once the tool has answered, its result
Pending == [kind |-> "pending"]
NoTool == [name |-> "none", args |-> <<>>, world |-> <<>>, result |-> Pending]

\* lifespan before its yield returns: the application is serving
Serving ==
    [phase |-> "serving", items |-> <<>>, position |-> 0, close_calls |-> <<>>,
     logged |-> {}]

\* the environment of a default deployment: the two credentials, nothing else
DefaultEnviron ==
    [GOOGLE_API_KEY |-> <<"google-key">>, TAVILY_API_KEY |-> <<"tavily-key">>]

\* the front door after lifespan's startup: an empty session store
DoorStarted ==
    /\ user_sessions = <<>>
    /\ agents = <<>>
    /\ calls = [c \in 1..MaxCalls |-> IdleCall]
    /\ issued = {}
    /\ event = NoEvent
    /\ handled = {}
    /\ reset_pending = {}
    /\ reset_clean = {}
    /\ served = 0
    /\ shutdown = Serving

Init ==
    /\ DoorStarted
    /\ mcp_up \in BOOLEAN
    /\ environ = DefaultEnviron
    /\ config = create_config(environ)
    /\ server_clients = ServerClients(environ)
    /\ tool = NoTool

\* achat from the point where the client and the tools are in place:
\* lines 223-231, up to the await of the reasoning loop
AchatInvoke(c, call, heap, ev) ==
    LET agent == heap[call.agent] IN
    IF agent.agent_executor = None
    THEN \* None.ainvoke: AttributeError, caught at line 241
         /\ agents' = heap
         /\ calls' = [calls EXCEPT ![c] = IdleCall]
         /\ event' = [ChatResponse(c, call, ErrorText("AttributeError")) EXCEPT
                         !.started = ev.started, !.reset_applied = ev.reset_applied,
                         !.exception = "AttributeError"]
    ELSE /\ agents' = heap
         /\ calls' = [calls EXCEPT ![c] = [call EXCEPT !.pc = "ainvoke"]]
         /\ event' = [ev EXCEPT !.phase = "ainvoke",
                         !.chat_history = chat_context(agent.chat_history)]

\* POST /chat: main.py:157-183 and achat up to its first await
ChatStart(c, cookie, message, reset, budget) ==
    /\ calls[c].pc = "idle"
    /\ \A d \in 1..(c - 1) : calls[d].pc # "idle"
    /\ served < budget
    /\ served' = served + 1
    /\ \E session_id \in (IF Falsy(cookie) THEN uuid4(issued) ELSE {cookie}) :
        LET g == get_or_create_agent(user_sessions, agents, session_id)
            a == g.agent
            agent == IF reset
                     THEN [g.agents[a] EXCEPT
                              !.chat_history = reset_memory(g.agents[a].chat_history)]
                     ELSE g.agents[a]
            call == [pc |-> "start", cookie |-> cookie, session_id |-> session_id,
                     set_cookie |-> IF Falsy(cookie) THEN session_id ELSE None,
                     agent |-> a, user_input |-> message,
                     after_reset |-> reset \/ a \in reset_pending]
            ev == [NoEvent EXCEPT !.op = "chat", !.call = c, !.started = TRUE,
                                  !.cookie = cookie, !.reset_applied = reset,
                                  !.session_id = session_id,
                                  !.set_cookie = call.set_cookie, !.agent = a,
                                  !.after_reset = call.after_reset]
        IN  /\ issued' = IF Falsy(cookie) THEN issued \cup {session_id} ELSE issued
            /\ handled' = handled \cup {session_id}
            /\ user_sessions' = g.sessions
            /\ reset_pending' = reset_pending \ {a}
            /\ reset_clean' = IF reset THEN reset_clean \cup {a} ELSE reset_clean
            /\ IF agent.mcp_client = None
               THEN \* the client is created, then get_tools is awaited
                    /\ agents' = [g.agents EXCEPT ![a] = client_created(agent)]
                    /\ calls' = [calls EXCEPT ![c] = [call EXCEPT !.pc = "get_tools"]]
                    /\ event' = [ev EXCEPT !.phase = "get_tools"]
               ELSE AchatInvoke(c, call, [g.agents EXCEPT ![a] = agent], ev)
    /\ UNCHANGED mcp_up
    /\ UNCHANGED proc_vars

\* get_tools returns: lines 174-179, then achat goes on to the reasoning loop
GetToolsReturn(c) ==
    /\ calls[c].pc = "get_tools"
    /\ mcp_up
    /\ AchatInvoke(c, calls[c],
                   [agents EXCEPT ![calls[c].agent] = tools_loaded(agents[calls[c].agent])],
                   [NoEvent EXCEPT !.op = "chat", !.call = c,
                       !.cookie = calls[c].cookie, !.session_id = calls[c].session_id,
                       !.set_cookie = calls[c].set_cookie, !.agent = calls[c].agent,
                       !.after_reset = calls[c].after_reset])
    /\ UNCHANGED <<user_sessions, issued, mcp_up, handled, reset_pending, reset_clean, served>>
    /\ UNCHANGED proc_vars

\* get_tools raises: re-raised at line 183, caught by achat at line 241
GetToolsRaise(c) ==
    /\ calls[c].pc = "get_tools"
    /\ ~mcp_up
    /\ calls' = [calls EXCEPT ![c] = IdleCall]
    /\ event' = [ChatResponse(c, calls[c], ErrorText("ConnectError")) EXCEPT
                    !.exception = "ConnectError"]
    /\ UNCHANGED <<user_sessions, agents, issued, mcp_up, handled, reset_pending,
                   reset_clean, served>>
    /\ UNCHANGED proc_vars

\* the reasoning loop returns: lines 232-239, then main.py:184-186
AinvokeReturn(c, response) ==
    /\ calls[c].pc = "ainvoke"
    /\ LET a == calls[c].agent
           answer == Get(response, "output", FallbackAnswer)
       IN  /\ agents' = [agents EXCEPT ![a].chat_history =
                            extend_history(@, calls[c].user_input, answer)]
           /\ event' = ChatResponse(c, calls[c], answer)
           /\ reset_clean' = reset_clean \ {a}
    /\ calls' = [calls EXCEPT ![c] = IdleCall]
    /\ UNCHANGED <<user_sessions, issued, mcp_up, handled, reset_pending, served>>
    /\ UNCHANGED proc_vars

\* the reasoning loop raises: caught at line 241
AinvokeRaise(c) ==
    /\ calls[c].pc = "ainvoke"
    /\ calls' = [calls EXCEPT ![c] = IdleCall]
    /\ event' = [ChatResponse(c, calls[c], ErrorText("LoopError")) EXCEPT
                    !.exception = "LoopError"]
    /\ UNCHANGED <<user_sessions, agents, issued, mcp_up, handled, reset_pending,
                   reset_clean, served>>
    /\ UNCHANGED proc_vars

\* POST /reset: what the handler does to the registry and the agents, and its answer
reset_endpoint_create_first(sessions, heap, cookie) ==
    LET g == get_or_create_agent(sessions, heap, cookie)
    IN  IF Falsy(cookie)
        THEN [sessions |-> g.sessions, agents |-> g.agents, agent |-> 0,
              status_code |-> 400, detail |-> "No active session"]
        ELSE [sessions |-> g.sessions,
              agents |-> [g.agents EXCEPT ![g.agent].chat_history = reset_memory(@)],
              agent |-> g.agent, status_code |-> 200, detail |-> ""]
reset_endpoint(sessions, heap, cookie) ==
    IF Falsy(cookie)
    THEN [sessions |-> sessions, agents |-> heap, agent |-> 0,
          status_code |-> 400, detail |-> "No active session"]
    ELSE LET g == get_or_create_agent(sessions, heap, cookie)
         IN  [sessions |-> g.sessions,
              agents |-> [g.agents EXCEPT ![g.agent].chat_history = reset_memory(@)],
              agent |-> g.agent, status_code |-> 200, detail |-> ""]

Reset(cookie, budget) ==
    LET r == reset_endpoint(user_sessions, agents, cookie) IN
    /\ served < budget
    /\ served' = served + 1
    /\ user_sessions' = r.sessions
    /\ agents' = r.agents
    /\ handled' = IF Falsy(cookie) THEN handled ELSE handled \cup {cookie}
    /\ reset_pending' = IF Falsy(cookie) THEN reset_pending ELSE reset_pending \cup {r.agent}
    /\ reset_clean' = IF Falsy(cookie) THEN reset_clean ELSE reset_clean \cup {r.agent}
    /\ event' = [NoEvent EXCEPT !.op = "reset", !.started = TRUE, !.cookie = cookie,
                    !.phase = "response", !.agent = r.agent,
                    !.reset_applied = ~Falsy(cookie),
                    !.status_code = r.status_code, !.detail = r.detail,
                    !.response = IF r.status_code = 200 THEN ResetBody ELSE <<>>,
                    !.status = IF r.status_code = 200 THEN "success" ELSE ""]
    /\ UNCHANGED <<calls, issued, mcp_up>>
    /\ UNCHANGED proc_vars

\* GET /health
Health ==
    /\ event' = [NoEvent EXCEPT !.op = "health", !.started = TRUE,
                    !.phase = "response", !.status_code = 200,
                    !.status = "healthy", !.active_sessions = active_sessions]
    /\ UNCHANGED <<user_sessions, agents, calls, issued, mcp_up, handled,
                   reset_pending, reset_clean, served>>
    /\ UNCHANGED proc_vars

\* the tool server goes down or comes back
McpServerChange ==
    /\ mcp_up' = ~mcp_up
    /\ event' = NoEvent
    /\ UNCHANGED <<user_sessions, agents, calls, issued, handled, reset_pending,
                   reset_clean, served>>
    /\ UNCHANGED proc_vars

\* the front door, any client
Next ==
    \/ \E c \in 1..MaxCalls, cookie \in Cookies, reset \in BOOLEAN :
          ChatStart(c, cookie, <<"q1">>, reset, MaxRequests)
    \/ \E c \in 1..MaxCalls : GetToolsReturn(c)
    \/ \E c \in 1..MaxCalls : GetToolsRaise(c)
    \/ \E c \in 1..MaxCalls, response \in LoopResponses : AinvokeReturn(c, response)
    \/ \E c \in 1..MaxCalls : AinvokeRaise(c)
    \/ \E cookie \in Cookies : Reset(cookie, MaxRequests)
    \/ Health
    \/ McpServerChange

Spec == Init /\ [][Next]_vars

\* the front door, one browser
NextSession ==
    \/ \E c \in 1..MaxCalls, cookie \in SessionCookies, message \in Messages,
          reset \in BOOLEAN :
          ChatStart(c, cookie, message, reset, MaxSessionRequests)
    \/ \E c \in 1..MaxCalls : GetToolsReturn(c)
    \/ \E c \in 1..MaxCalls : GetToolsRaise(c)
    \/ \E c \in 1..MaxCalls, response \in LoopResponses : AinvokeReturn(c, response)
    \/ \E c \in 1..MaxCalls : AinvokeRaise(c)
    \/ \E cookie \in SessionCookies : Reset(cookie, MaxSessionRequests)
    \/ Health
    \/ McpServerChange

SpecSession == Init /\ [][NextSession]_vars

\* ------------------------------------------------------------ shutdown
\* user_sessions.items(): the registry's agents in insertion order, which is
\* the order of their construction
items(sessions) ==
    LET registered == {sessions[t] : t \in DOMAIN sessions} IN
    [i \in 1..Cardinality(registered) |->
        CHOOSE a \in registered : Cardinality({b \in registered : b <= a}) = i]

\* DomainQAAgent.close: whether it logs an error, given what mcp_client.close does
close(agent, client_close_raises) ==
    [logged |-> agent.mcp_client # None /\ client_close_raises]

\* lifespan: one turn of the cleanup loop, for the agent a at the loop's position
cleanup_turn_stop_on_failure(sd, a, closed) ==
    [sd EXCEPT !.close_calls[a] = @ + 1,
               !.logged = IF closed.logged THEN @ \cup {a} ELSE @,
               !.position = IF closed.logged THEN Len(sd.items) + 1 ELSE @ + 1]
cleanup_turn(sd, a, closed) ==
    [sd EXCEPT !.close_calls[a] = @ + 1,
               !.logged = IF closed.logged THEN @ \cup {a} ELSE @,
               !.position = @ + 1]

\* lifespan resumes after its yield.  The server runs the shutdown half once
\* the requests in flight have finished, and takes up no request after it.
ShutdownBegin ==
    /\ shutdown.phase = "serving"
    /\ \A c \in 1..MaxCalls : calls[c].pc = "idle"
    /\ shutdown' = [phase |-> "closing", items |-> items(user_sessions),
                    position |-> 1, close_calls |-> [a \in 1..Len(agents) |-> 0],
                    logged |-> {}]
    /\ event' = NoEvent
    /\ UNCHANGED <<user_sessions, agents, calls, issued, mcp_up, handled,
                   reset_pending, reset_clean, served>>
    /\ UNCHANGED <<environ, config, server_clients, tool>>

\* await agent.close() for the next agent of the loop
CloseAgent(client_close_raises) ==
    /\ shutdown.phase = "closing"
    /\ shutdown.position <= Len(shutdown.items)
    /\ LET a == shutdown.items[shutdown.position] IN
        /\ client_close_raises => agents[a].mcp_client # None
        /\ shutdown' = cleanup_turn(shutdown, a, close(agents[a], client_close_raises))
    /\ UNCHANGED door_vars
    /\ UNCHANGED <<environ, config, server_clients, tool>>

\* the loop is over: user_sessions.clear()
ShutdownEnd ==
    /\ shutdown.phase = "closing"
    /\ shutdown.position > Len(shutdown.items)
    /\ user_sessions' = <<>>
    /\ shutdown' = [shutdown EXCEPT !.phase = "done"]
    /\ UNCHANGED <<agents, calls, issued, mcp_up, event, handled,
                   reset_pending, reset_clean, served>>
    /\ UNCHANGED <<environ, config, server_clients, tool>>

\* the cookies of the requests before a shutdown: none, or a client-made token
ShutdownCookies == {None} \cup ClientTokens

\* the front door, serving and then shutting down
NextShutdown ==
    \/ \E c \in 1..MaxCalls, cookie \in ShutdownCookies :
          /\ shutdown.phase = "serving"
          /\ ChatStart(c, cookie, <<"q1">>, FALSE, MaxShutdownRequests)
    \/ \E c \in 1..MaxCalls : GetToolsReturn(c)
    \/ \E c \in 1..MaxCalls : GetToolsRaise(c)
    \/ \E c \in 1..MaxCalls : AinvokeReturn(c, [output |-> <<"a1">>])
    \/ \E c \in 1..MaxCalls : AinvokeRaise(c)
    \/ \E cookie \in ShutdownCookies :
          /\ shutdown.phase = "serving"
          /\ Reset(cookie, MaxShutdownRequests)
    \/ ShutdownBegin
    \/ \E client_close_raises \in BOOLEAN : CloseAgent(client_close_raises)
    \/ ShutdownEnd

SpecShutdown == Init /\ [][NextShutdown]_vars

\* ------------------------------------------------------------ tool server
Queries == {<<"how to">>}
SiteLists == {<<"docs.example.com">>}
Depths == {Nothing, Some(<<"advanced">>)}
MaxResultsArgs == {Nothing} \cup {Some(n) : n \in 0..(MaxProviderResults + 1)}

Contents == {<<"a">>, <<"a", "b">>, <<"b", "a", "c", "d">>}
SearchResults ==
    {[title |-> <<"T">>, url |-> <<"https://u">>, content |-> c] : c \in Contents}
        \cup {[url |-> <<"https://u">>]}
ResultLists == UNION {[1..n -> SearchResults] : n \in 0..MaxProviderResults}

\* what tavily_client.search can do: raise, or return a dict with or without results
ProviderOutcomes ==
    {Raised(<<"HTTPError">>), Returned([query |-> <<"how to">>])}
        \cup {Returned([results |-> l]) : l \in ResultLists}
\* what summarizer_llm.invoke can do: raise, or return a response with a content
SummarizerOutcomes == {Raised(<<"ResourceExhausted">>), Returned(<<"summary">>)}

Urls == {<<"h", ":", "/">>, <<"u">>, <<"h", "u">>}
TagLists == {Nothing, Some(<<"pre", "code">>)}
PageContents == {<<>>, <<"a">>, <<"a", "b">>, <<"b", "a", "c">>, <<"b", "a", "c", "d">>}
\* what loader.load can do: raise, or return a list of documents
LoaderOutcomes ==
    {Raised(<<"net::ERR_NAME_NOT_RESOLVED">>), Returned(<<>>),
     Returned(<<[page_content |-> <<"<html>">>]>>)}
\* what transform_documents can do: raise, or return a list of documents
TransformerOutcomes ==
    {Raised(<<"ParserError">>), Returned(<<>>)}
        \cup {Returned(<<[page_content |-> c]>>) : c \in PageContents}

\* the tool server answers a search_documentation call
SearchDocumentation ==
    /\ server_clients.state = "ready"
    /\ tool.name = "search_documentation"
    /\ tool.result = Pending
    /\ tool' = [tool EXCEPT !.result =
                    search_documentation(server_clients.settings, tool.args.query,
                                         tool.args.sites, tool.args.max_results,
                                         tool.args.depth, tool.world.provider,
                                         tool.world.summarizer)]
    /\ UNCHANGED <<door_vars, environ, config, server_clients, shutdown>>

\* the tool server answers a scrape_website call
ScrapeWebsite ==
    /\ server_clients.state = "ready"
    /\ tool.name = "scrape_website"
    /\ tool.result = Pending
    /\ tool' = [tool EXCEPT !.result =
                    scrape_website(server_clients.settings, tool.args.url,
                                   tool.args.tags_to_extract, tool.world.loader,
                                   tool.world.transformer)]
    /\ UNCHANGED <<door_vars, environ, config, server_clients, shutdown>>

TavilyKey == [TAVILY_API_KEY |-> <<"tavily-key">>]
GoogleKeyOptions == {<<>>, [GOOGLE_API_KEY |-> <<"google-key">>]}
SummarizationOptions ==
    {<<>>, [ENABLE_SEARCH_SUMMARIZATION |-> <<"T", "r", "u", "e">>],
     [ENABLE_SEARCH_SUMMARIZATION |-> <<"y", "e", "s">>]}

\* the tool server, started with valid settings, and a search call to answer
InitSearch ==
    /\ DoorStarted
    /\ mcp_up = TRUE
    /\ environ \in {TavilyKey @@ g @@ e
                        @@ [MAX_RESULTS |-> str(m), MAX_CONTENT_SIZE |-> str(l)] :
                     g \in GoogleKeyOptions, e \in SummarizationOptions,
                     m \in 0..MaxProviderResults, l \in 0..MaxLimit}
    /\ config = NotStarted
    /\ server_clients = ServerClients(environ)
    /\ tool \in {[name |-> "search_documentation",
                   args |-> [query |-> query, sites |-> sites,
                             max_results |-> max_results, depth |-> depth],
                   world |-> [provider |-> provider, summarizer |-> summarizer],
                   result |-> Pending] :
                  query \in Queries, sites \in SiteLists, max_results \in MaxResultsArgs,
                  depth \in Depths, provider \in ProviderOutcomes,
                  summarizer \in SummarizerOutcomes}

NextSearch == SearchDocumentation

SpecSearch == InitSearch /\ [][NextSearch]_vars

\* the tool server, started with valid settings, and a scrape call to answer
InitScrape ==
    /\ DoorStarted
    /\ mcp_up = TRUE
    /\ environ \in {TavilyKey @@ [MAX_SCRAPE_LENGTH |-> str(l)] : l \in 0..MaxLimit}
    /\ config = NotStarted
    /\ server_clients = ServerClients(environ)
    /\ tool \in {[name |-> "scrape_website",
                   args |-> [url |-> url, tags_to_extract |-> tags_to_extract],
                   world |-> [loader |-> loader, transformer |-> transformer],
                   result |-> Pending] :
                  url \in Urls, tags_to_extract \in TagLists, loader \in LoaderOutcomes,
                  transformer \in TransformerOutcomes}

NextScrape == ScrapeWebsite

SpecScrape == InitScrape /\ [][NextScrape]_vars

\* ------------------------------------------------------------ startup
DoorNumericKeys == {"LLM_TEMPERATURE", "LLM_MAX_TOKENS", "LLM_TIMEOUT", "REQUEST_TIMEOUT"}
ServerNumericKeys == {"MAX_RESULTS", "MAX_CONTENT_SIZE", "MAX_SCRAPE_LENGTH"}
EnvChars == {"3", ".", "x"}
EnvTexts == UNION {[1..n -> EnvChars] : n \in 0..MaxEnvLen}
NumericEnvirons ==
    UNION {[S -> EnvTexts] :
             S \in {T \in SUBSET (DoorNumericKeys \cup ServerNumericKeys) :
                       Cardinality(T) <= MaxEnvSet}}
CredentialEnvirons ==
    {g @@ t : g \in GoogleKeyOptions \cup {[GOOGLE_API_KEY |-> PlaceholderKey]},
              t \in {<<>>, TavilyKey}}

\* both processes before they start, in any environment
InitStartup ==
    /\ DoorStarted
    /\ mcp_up = TRUE
    /\ environ \in {c @@ n : c \in CredentialEnvirons, n \in NumericEnvirons}
    /\ config = NotStarted
    /\ server_clients = NotStarted
    /\ tool = NoTool

\* main.py: lifespan's startup
FrontDoorStartup ==
    /\ config.state = "not started"
    /\ config' = create_config(environ)
    /\ UNCHANGED <<door_vars, environ, server_clients, tool, shutdown>>

\* mcp_server.py: the module-level ServerClients()
ToolServerStartup ==
    /\ server_clients.state = "not started"
    /\ server_clients' = ServerClients(environ)
    /\ UNCHANGED <<door_vars, environ, config, tool, shutdown>>

NextStartup == FrontDoorStartup \/ ToolServerStartup

SpecStartup == InitStartup /\ [][NextStartup]_vars

\* ------------------------------------------------------------ front door claims
IsPrefix(s, t) == Len(s) <= Len(t) /\ SubSeq(t, 1, Len(s)) = s

ChatStarted(ev) == ev.op = "chat" /\ ev.started

\* C1: a POST /chat that arrives without a session_id cookie mints a token that
\* is no key of the registry and was never issued before, registers a new agent
\* under it, sets it as the response's session_id cookie and returns the same
\* value as the body's session_id.
C1_FreshSessionToken ==
    /\ [][(ChatStarted(event') /\ Falsy(event'.cookie)) =>
            /\ event'.session_id \notin DOMAIN user_sessions
            /\ event'.session_id \notin issued
            /\ ~Falsy(event'.session_id)
            /\ event'.set_cookie = event'.session_id
            /\ DOMAIN user_sessions' = DOMAIN user_sessions \cup {event'.session_id}
            /\ Len(agents') = Len(agents) + 1
            /\ user_sessions'[event'.session_id] = Len(agents')
            /\ \A t \in DOMAIN user_sessions : user_sessions'[t] = user_sessions[t]
            /\ calls'[event'.call].session_id = event'.session_id
            /\ calls'[event'.call].set_cookie = event'.session_id]_vars
    /\ [][(event'.op = "chat" /\ event'.phase = "response" /\ Falsy(event'.cookie)) =>
            /\ event'.status_code = 200
            /\ event'.set_cookie = calls[event'.call].session_id
            /\ event'.session_id = event'.set_cookie]_vars

C1_Witness ==
    /\ event.op = "chat" /\ event.phase = "response" /\ Falsy(event.cookie)
    /\ Cardinality(issued) = 2
    /\ event.session_id \in issued

\* C6: POST /reset without a session_id cookie answers 400 "No active session"
\* and changes nothing: no agent is created, the registry and every history
\* stay as they were.
C6_ResetWithoutCookie ==
    [][(event'.op = "reset" /\ Falsy(event'.cookie)) =>
          /\ event'.status_code = 400
          /\ event'.detail = "No active session"
          /\ UNCHANGED <<user_sessions, agents, calls>>]_vars

C6_Witness ==
    /\ event.op = "reset" /\ Falsy(event.cookie) /\ event.status_code = 400
    /\ Len(agents) >= 1

\* the token a request is handled for (none for a /reset without cookie)
HandledToken(ev) ==
    IF ev.op = "chat" THEN ev.session_id ELSE ev.cookie

\* C7: the active session count GET /health reports is the number of distinct
\* tokens a /chat or /reset has been handled for: 0 at first, unchanged by a
\* request with a known token, one more after a request with an unknown
\* token, never less.
C7_ActiveSessionCount ==
    /\ [](active_sessions = Cardinality(handled))
    /\ [](event.op = "health" => event.active_sessions = Cardinality(handled))
    /\ [][/\ active_sessions' >= active_sessions
          /\ (event'.started /\ event'.op \in {"chat", "reset"}
                /\ ~Falsy(HandledToken(event'))) =>
                active_sessions' = active_sessions
                    + (IF HandledToken(event') \in handled THEN 0 ELSE 1)]_vars

C7_Witness ==
    /\ event.op = "health" /\ event.active_sessions = 2
    /\ Cardinality(handled) = 2

\* ------------------------------------------------------------ session claims
\* C2 as stated: after reset_memory, the next chat call on the session passes
\* an empty chat_history to the reasoning loop.
C2_NextChatAfterResetIsEmpty ==
    (event.op = "chat" /\ event.phase = "ainvoke" /\ event.after_reset) =>
        event.chat_history = <<>>

\* C2 as amended: after reset_memory, the next chat call on the session passes
\* an empty chat_history to the reasoning loop, provided no chat call that was
\* in flight at the reset has appended its turns in between.
C2_NextChatAfterResetIsEmptyUnlessAppended ==
    (event.op = "chat" /\ event.phase = "ainvoke" /\ event.after_reset
        /\ event.agent \in reset_clean) =>
        event.chat_history = <<>>

C2_Witness ==
    /\ event.op = "chat" /\ event.phase = "ainvoke" /\ event.after_reset
    /\ event.agent \in reset_clean
    /\ ~event.reset_applied
    /\ served >= 3

\* the last min(5, n) entries of a history of n turns
LastTurns(h) ==
    LET n == Len(h)
        k == IF n < 5 THEN n ELSE 5
    IN  [i \in 1..k |-> h[n - k + i]]

\* C3: the context passed to the reasoning loop is the last min(5, n) entries
\* of the stored history, in order; a chat call never shortens the stored
\* history, which keeps every turn until an explicit reset.
C3_ContextIsLastFive ==
    /\ []((event.op = "chat" /\ event.phase = "ainvoke") =>
            event.chat_history = LastTurns(agents[event.agent].chat_history))
    /\ [][\A a \in 1..Len(agents) :
            \/ IsPrefix(agents[a].chat_history, agents'[a].chat_history)
            \/ /\ event'.reset_applied
               /\ event'.agent = a
               /\ IsPrefix(agents'[a].chat_history, <<>>)]_vars

C3_Witness ==
    /\ event.op = "chat" /\ event.phase = "ainvoke"
    /\ Len(agents[event.agent].chat_history) >= 6
    /\ Len(event.chat_history) = 5

\* the stored history of agent a before a step, as the chat call of the step
\* finds it: empty for an agent the step creates, and after a requested reset
HistoryFound(ev, heap) ==
    IF ev.reset_applied \/ ev.agent > Len(heap)
    THEN <<>>
    ELSE heap[ev.agent].chat_history

\* C4: a chat call in which something raises inside achat returns a text that
\* starts with "Error: ", leaves the history as it was and is answered with
\* the ordinary success response; a call that completes appends exactly
\* (user, text), (assistant, answer).
C4_ErrorsLeaveHistory ==
    [][event'.op = "chat" =>
         LET h  == HistoryFound(event', agents)
             h2 == agents'[event'.agent].chat_history
         IN  /\ (event'.phase # "response") => h2 = h
             /\ (event'.phase = "response" /\ event'.exception # "") =>
                   /\ Head(event'.response) = "Error: "
                   /\ event'.status_code = 200 /\ event'.status = "success"
                   /\ h2 = h
             /\ (event'.phase = "response" /\ event'.exception = "") =>
                   /\ event'.status_code = 200 /\ event'.status = "success"
                   /\ h2 = h \o <<[role |-> "user",
                                   content |-> calls[event'.call].user_input],
                                  [role |-> "assistant",
                                   content |-> event'.response]>>]_vars

C4_Witness ==
    /\ event.op = "chat" /\ event.phase = "response"
    /\ event.exception = "LoopError"
    /\ Len(agents[event.agent].chat_history) >= 2

\* C5: a failure to fetch the tool list is fatal to the triggering request
\* only: that call answers with an error text, and a later chat call on the
\* session, made when the tool server is reachable and alone on the session,
\* initialises the tools or runs the reasoning loop.
C5_InitFailureIsPerRequest ==
    /\ (event.op = "chat" /\ event.exception = "ConnectError") =>
          (event.phase = "response" /\ Head(event.response) = "Error: "
             /\ event.status_code = 200)
    /\ (ChatStarted(event) /\ mcp_up
          /\ \A c \in 1..MaxCalls : c # event.call => calls[c].pc = "idle") =>
          event.phase \in {"get_tools", "ainvoke"}

\* ------------------------------------------------------------ concurrency claims
InFlight(c) == calls[c].pc # "idle"

\* two /chat requests in flight at once that carry the same token
SimultaneousRequests(c, d) ==
    /\ c # d /\ InFlight(c) /\ InFlight(d)
    /\ calls[c].session_id = calls[d].session_id

\* C12 as stated, in the setting it names: two simultaneous requests that
\* carry the same token, unknown before them, have constructed two agents, the
\* registry slot holding the later one.
C12_SimultaneousFirstRequestsRace ==
    \A c, d \in 1..MaxCalls :
        (SimultaneousRequests(c, d) /\ calls[c].cookie \in ClientTokens) =>
            /\ calls[c].agent # calls[d].agent
            /\ Len(agents) > Cardinality(DOMAIN user_sessions)

\* C12 amended: lookup and creation happen in one uninterrupted step, so no
\* interleaving constructs two agents for a token: a registry slot, once set,
\* is never overwritten, every agent constructed is the one its token's slot
\* holds, and every request in flight runs on the agent in its token's slot.
C12_OneAgentPerToken ==
    [][/\ \A t \in DOMAIN user_sessions :
              t \in DOMAIN user_sessions' /\ user_sessions'[t] = user_sessions[t]
       /\ Len(agents') = Cardinality(DOMAIN user_sessions')
       /\ \A c \in 1..MaxCalls :
              calls'[c].pc # "idle" =>
                  /\ calls'[c].session_id \in DOMAIN user_sessions'
                  /\ user_sessions'[calls'[c].session_id] = calls'[c].agent]_vars

\* two requests with the same client-made token in flight at once, the second
\* taken up while the first was still running
C12_Witness ==
    \E c, d \in 1..MaxCalls :
        /\ SimultaneousRequests(c, d)
        /\ calls[c].cookie \in ClientTokens
        /\ calls[c].agent = calls[d].agent
        /\ Len(agents) = 1

\* the step completes the chat call in slot c with an answer
CompletesWithAnswer(c) ==
    /\ calls[c].pc = "ainvoke" /\ calls'[c].pc = "idle"
    /\ event'.op = "chat" /\ event'.call = c
    /\ event'.phase = "response" /\ event'.exception = ""

\* the (user, assistant) pair of the call in slot c that the step completes
CompletedPair(c) ==
    <<[role |-> "user", content |-> calls[c].user_input],
      [role |-> "assistant", content |-> event'.response]>>

\* the step completes, with an answer, the second of two requests that ran at
\* the same time on one session: slot 2 is taken only while slot 1 is busy,
\* only two requests were ever taken up, and the other one has already
\* appended its pair
SecondOfTwoCompletes ==
    /\ CompletesWithAnswer(2)
    /\ served = 2
    /\ calls[1].pc = "idle"
    /\ agents[calls[2].agent].chat_history # <<>>

\* C13 as stated, in the setting it names: when the second of two concurrent
\* chat calls on a session completes after the first has appended, only the
\* last append survives, and the history lacks the first call's pair.
C13_LastAppendWins ==
    [][SecondOfTwoCompletes =>
          agents'[calls[2].agent].chat_history = CompletedPair(2)]_vars

\* C13 amended: no history update is lost.  A chat call that completes with
\* an answer appends its pair to the history as stored at that moment, and
\* no step other than a reset removes or changes a stored turn, whatever
\* other calls run on the session meanwhile.
C13_NoLostUpdate ==
    [][\A a \in 1..Len(agents) :
          /\ ~(event'.reset_applied /\ event'.agent = a) =>
                IsPrefix(agents[a].chat_history, agents'[a].chat_history)
          /\ \A c \in 1..MaxCalls :
                (CompletesWithAnswer(c) /\ calls[c].agent = a) =>
                    agents'[a].chat_history =
                        agents[a].chat_history \o CompletedPair(c)]_vars

\* two requests ran at the same time on one session, both have completed
\* with an answer, and the history holds both pairs
C13_Witness ==
    /\ event.op = "chat" /\ event.call = 2
    /\ event.phase = "response" /\ event.exception = ""
    /\ served = 2
    /\ \A c \in 1..MaxCalls : calls[c].pc = "idle"
    /\ Len(agents[event.agent].chat_history) = 4
    /\ agents[event.agent].chat_history[4].content = event.response

\* the step takes the call in slot c to the fetch of the tool list
StartsFetch(c) == calls[c].pc # "get_tools" /\ calls'[c].pc = "get_tools"

\* C15: in every interleaving of chat calls on one session, the tool list is
\* fetched at most once per agent (a fetch starts only on an agent whose
\* client was not yet created), and a chat call goes on to the reasoning loop
\* only with the agent's executor created: it never goes past the
\* initialisation with the client set and the executor absent.
C15_InitialisedBeforeLoop ==
    [][/\ \A c \in 1..MaxCalls :
              (StartsFetch(c) /\ calls'[c].agent <= Len(agents)) =>
                  agents[calls'[c].agent].mcp_client = None
       /\ (event'.op = "chat" /\ event'.phase = "ainvoke") =>
              agents'[event'.agent].agent_executor # None
       /\ event'.exception # "AttributeError"]_vars

\* ------------------------------------------------------------ shutdown claims
\* the agents the registry held when the shutdown began
RegisteredAtShutdown == {shutdown.items[i] : i \in 1..Len(shutdown.items)}

\* C14: on shutdown, close is called exactly once on every agent of the
\* registry: never twice while the loop runs, a logged failure included (no
\* retry), and once on each, the ones after a failure included, when the
\* shutdown completes; the registry is then empty.
C14_ShutdownClosesEveryAgentOnce ==
    /\ shutdown.phase # "serving" =>
          /\ \A a \in RegisteredAtShutdown : shutdown.close_calls[a] <= 1
          /\ \A a \in shutdown.logged : shutdown.close_calls[a] = 1
          /\ shutdown.logged \subseteq RegisteredAtShutdown
    /\ shutdown.phase = "done" =>
          /\ \A a \in RegisteredAtShutdown : shutdown.close_calls[a] = 1
          /\ user_sessions = <<>>

\* a shutdown that has completed, with two agents in the registry, the close
\* of the first of them having failed
C14_Witness ==
    /\ shutdown.phase = "done"
    /\ Len(shutdown.items) = 2
    /\ shutdown.items[1] \in shutdown.logged
    /\ shutdown.close_calls[shutdown.items[2]] = 1
    /\ user_sessions = <<>>

\* ------------------------------------------------------------ tool server claims
Answered(name) == tool.name = name /\ tool.result # Pending

Min(a, b) == IF a <= b THEN a ELSE b

\* the list the provider returned, empty when it returned none
ProviderResults == Get(tool.world.provider.value, "results", <<>>)

\* the caller's max_results when it gives one, else the configured MAX_RESULTS
EffectiveMaxResults ==
    IF tool.args.max_results \notin {Nothing, Some(0)}
    THEN tool.args.max_results[1]
    ELSE server_clients.settings.max_results

\* a result's content as the claim has it: unchanged up to the limit, else its
\* first limit characters followed by "..."
LimitedContent(content, limit) ==
    IF Len(content) <= limit THEN content
    ELSE [j \in 1..limit |-> content[j]] \o <<"...">>

\* the section of the i-th result (i < 10)
Section(i, result, limit) ==
    <<"\nResult ", Digits[i + 1], ":\nTitle: ">>
        \o (IF "title" \in DOMAIN result THEN result.title ELSE DefaultTitle)
        \o <<"\nURL: ">>
        \o (IF "url" \in DOMAIN result THEN result.url ELSE DefaultUrl)
        \o <<"\nContent: ">>
        \o LimitedContent(IF "content" \in DOMAIN result THEN result.content
                          ELSE DefaultContent, limit)
        \o <<"\n---\n">>

\* sections 1..k of the results, in order, a newline between two sections
RECURSIVE Block(_, _, _)
Block(results, k, limit) ==
    IF k = 0 THEN <<>>
    ELSE IF k = 1 THEN Section(1, results[1], limit)
    ELSE Block(results, k - 1, limit) \o <<"\n">> \o Section(k, results[k], limit)

ExpectedBlock ==
    Block(ProviderResults, Min(Len(ProviderResults), EffectiveMaxResults),
          server_clients.settings.max_content_size)

\* the summarizer is called and answers
SummaryReturned ==
    /\ server_clients.settings.enable_search_summarization
    /\ server_clients.settings.summarizer_llm # Nothing
    /\ tool.world.summarizer.kind = "return"

\* C8 as stated: whenever the provider returns, search_documentation's output
\* is the no-results message for an empty list, and otherwise the block of
\* sections for the first min(n, maxResults) results, numbered from 1, each
\* content cut to the limit and followed by "..." when it is longer.
C8_OutputIsFormattedBlock ==
    (Answered("search_documentation") /\ tool.world.provider.kind = "return") =>
        tool.result =
            Returned(IF ProviderResults = <<>> THEN NoResultsText ELSE ExpectedBlock)

\* C8 amended: the output is that block when summarization is off, has no
\* summarizer, or the summarizer call fails; when the summarizer answers on a
\* block that is not empty, the output is the summarizer's text instead.
C8_OutputIsFormattedBlockUnlessSummarized ==
    (Answered("search_documentation") /\ tool.world.provider.kind = "return") =>
        tool.result =
            Returned(IF ProviderResults = <<>> THEN NoResultsText
                     ELSE IF SummaryReturned /\ ExpectedBlock # <<>>
                          THEN tool.world.summarizer.value
                          ELSE ExpectedBlock)

\* more results than maxResults, a content longer than the limit among the
\* ones kept, and no summary
C8_Witness ==
    /\ Answered("search_documentation")
    /\ tool.world.provider.kind = "return"
    /\ ~SummaryReturned
    /\ EffectiveMaxResults >= 1
    /\ Len(ProviderResults) > EffectiveMaxResults
    /\ server_clients.settings.max_content_size >= 1
    /\ \E i \in 1..EffectiveMaxResults :
          /\ "content" \in DOMAIN ProviderResults[i]
          /\ Len(ProviderResults[i].content) > server_clients.settings.max_content_size
    /\ tool.result.kind = "return"

\* C11: summarization is best-effort.  With summarization enabled and a
\* summarizer configured, a search whose provider returned results answers
\* with the unsummarized block when the summarizer call raises and with the
\* summarizer's text when it succeeds, and never with an error.
C11_SummarizationIsBestEffort ==
    (/\ Answered("search_documentation")
     /\ tool.world.provider.kind = "return"
     /\ ProviderResults # <<>>
     /\ server_clients.settings.enable_search_summarization
     /\ server_clients.settings.summarizer_llm # Nothing) =>
        /\ tool.result.kind = "return"
        /\ tool.world.summarizer.kind = "raise" =>
              tool.result.value = ExpectedBlock
        /\ tool.world.summarizer.kind = "return" =>
              tool.result.value = tool.world.summarizer.value

\* text s occurs in text t
Contains(t, s) ==
    \E i \in 0..(Len(t) - Len(s)) : \A j \in 1..Len(s) : t[i + j] = s[j]

\* the page was loaded and text was extracted from it
ScrapeSucceeded ==
    /\ tool.world.loader.kind = "return" /\ tool.world.loader.value # <<>>
    /\ tool.world.transformer.kind = "return" /\ tool.world.transformer.value # <<>>

\* C9: scrape_website never raises; whatever the page load and the extraction
\* do, it returns a text that contains the requested URL, and on success the
\* text carries the extracted content, unchanged up to the scrape limit and
\* otherwise cut to its first limit characters followed by the truncation marker.
C9_ScrapeAlwaysReturnsText ==
    Answered("scrape_website") =>
        /\ tool.result.kind = "return"
        /\ Contains(tool.result.value, tool.args.url)
        /\ ScrapeSucceeded =>
              LET extracted == tool.world.transformer.value[1].page_content
                  limit == server_clients.settings.max_scrape_length
              IN  tool.result.value =
                      <<"\n**Website Scraped:** ">> \o tool.args.url
                        \o <<"\n**Content Extracted:**\n\n">>
                        \o (IF Len(extracted) <= limit THEN extracted
                            ELSE [j \in 1..limit |-> extracted[j]]
                                    \o <<"\n\n... (content truncated)">>)
                        \o <<"\n\n**Note:** Complete website content for comprehensive analysis.\n">>

\* the page load failed and the caller got a text naming the URL
C9_Witness ==
    /\ Answered("scrape_website")
    /\ tool.world.loader.kind = "raise"
    /\ tool.result.kind = "return"
    /\ Contains(tool.result.value, tool.args.url)

\* ------------------------------------------------------------ startup claims
\* a value that is not a number: it is empty, or has a character that is
\* neither a digit nor a decimal point
NonNumeric(text) ==
    text = <<>> \/ \E i \in 1..Len(text) : ~IsDigit(text[i]) /\ text[i] # "."

InvalidSettings(keys) == {k \in keys \cap DOMAIN environ : NonNumeric(environ[k])}

\* the front door, given its key, starts; each invalid setting has its
\* default and was warned about
C10_FrontDoorFallsBack ==
    (config.state # "not started" /\ validate_client_config(environ).ok) =>
        /\ config.state = "ready"
        /\ InvalidSettings(DoorNumericKeys) \subseteq config.warned
        /\ "LLM_TEMPERATURE" \in InvalidSettings(DoorNumericKeys) =>
              config.settings.llm_temperature = [num |-> 1, scale |-> 1]
        /\ "LLM_MAX_TOKENS" \in InvalidSettings(DoorNumericKeys) =>
              config.settings.llm_max_tokens = 3000
        /\ "LLM_TIMEOUT" \in InvalidSettings(DoorNumericKeys) =>
              config.settings.llm_timeout = 60
        /\ "REQUEST_TIMEOUT" \in InvalidSettings(DoorNumericKeys) =>
              config.settings.request_timeout = 30

\* the tool server, given its key, starts; each invalid setting has its default
C10_ToolServerFallsBack ==
    (server_clients.state # "not started" /\ "TAVILY_API_KEY" \in DOMAIN environ) =>
        /\ server_clients.state = "ready"
        /\ "MAX_RESULTS" \in InvalidSettings(ServerNumericKeys) =>
              server_clients.settings.max_results = 10
        /\ "MAX_CONTENT_SIZE" \in InvalidSettings(ServerNumericKeys) =>
              server_clients.settings.max_content_size = 10000
        /\ "MAX_SCRAPE_LENGTH" \in InvalidSettings(ServerNumericKeys) =>
              server_clients.settings.max_scrape_length = 20000

\* C10: a non-numeric value in a numeric setting never fails startup; the
\* setting falls back to its default, in the front door and in the tool
\* server alike.
C10_InvalidNumericFallsBack ==
    C10_FrontDoorFallsBack /\ C10_ToolServerFallsBack
====
